---- MODULE Spec2Model ----
(***************************************************************************)
(* Model of echtzeitinfo: the polling loop of src/main.py, the refresh     *)
(* controller of src/display.py, the fetch / aggregate pipeline of         *)
(* src/api.py and the direction truncation of src/renderer.py.             *)
(*                                                                         *)
(* Four specifications share the variables:                                *)
(*   Spec        main() driving Display (main.py, display.py)              *)
(*   SpecGroup   group_by_station applied to monitor lists (api.py)        *)
(*   SpecFetch   fetch_departures parsing one response (api.py)            *)
(*   SpecRender  the direction truncation of _draw_line_row (renderer.py)  *)
(* Each one keeps the variables of the other three at their idle values.   *)
(***************************************************************************)
EXTENDS Integers, Sequences, FiniteSets, TLC

VARIABLES
    \* ---- main.py / display.py
    pc,                 \* position of main()
    running,            \* main._running
    simulate,           \* Display._simulate
    has_init_fast,      \* whether the loaded driver has an init_fast attribute
    full_refresh_every, \* Display._full_refresh_every
    refresh_interval,   \* main: refresh_interval
    cycle_count,        \* Display._cycle_count
    epd,                \* Display._epd is set (TRUE) or None (FALSE)
    needs_full_refresh, \* Display.update: the classification of the last call
    epd_calls,          \* driver calls issued by the last Display method
    update_calls,       \* number of Display.update calls since construction
    ticks,              \* main: index of the sleep loop
    error_in,           \* the step of main whose exception is being handled
    cleanup,            \* Display methods called by the finally block
    fetches,            \* number of fetch_departures calls started
    \* ---- api.py, group_by_station
    monitors,           \* the monitor list (the dicts group_by_station is given)
    given,              \* the monitor list as it was first given
    result,             \* the returned list: per station, references into monitors
    first_result,       \* the value returned by the first call
    group_calls,        \* number of group_by_station calls on this list
    \* ---- api.py, fetch_departures
    fpc,                \* position of fetch_departures; raised_<where> when
                        \* an exception left it while reading <where>
    fetched,            \* fetch_departures: the list `monitors` being built
    monitors_left,      \* entries of data.monitors not yet iterated
    lines_left,         \* entries of monitor.lines not yet iterated
    deps_left,          \* entries of departures.departure not yet iterated
    lines_read,         \* line entries read from the response so far
    deps_read,          \* departure entries read from the response so far
    rbl,                \* fetch_departures: rbl of the current monitor
    line_data,          \* the name / towards fields of the current line entry
    line_name,          \* fetch_departures: line_name
    towards,            \* fetch_departures: towards
    departures,         \* fetch_departures: departures of the current line
    dep_time,           \* the departureTime fields of the current entry
    emitted,            \* the current entry was appended to departures
    \* ---- renderer.py, _draw_line_row
    rpc,                \* position of _draw_line_row
    direction,          \* line["towards"], the text to draw
    line_right,         \* line_bbox[2]: the right edge of the line name
    drawn               \* the direction text passed to draw.text

mainVars == <<pc, running, simulate, has_init_fast, full_refresh_every,
              refresh_interval, cycle_count, epd, needs_full_refresh,
              epd_calls, update_calls, ticks, error_in, cleanup, fetches>>

groupVars == <<monitors, given, result, first_result, group_calls>>

fetchVars == <<fpc, fetched, monitors_left, lines_left, deps_left, lines_read,
               deps_read, rbl, line_data, line_name, towards, departures,
               dep_time, emitted>>

renderVars == <<rpc, direction, line_right, drawn>>

vars == <<mainVars, groupVars, fetchVars, renderVars>>

notMain == <<groupVars, fetchVars, renderVars>>

notGroup == <<mainVars, fetchVars, renderVars>>

notFetch == <<mainVars, groupVars, renderVars>>

notRender == <<mainVars, groupVars, fetchVars>>

(***************************************************************************)
(* Bounds                                                                  *)
(***************************************************************************)
MaxCycles == 15
MaxInterval == 2
MaxMonitors == 2
MaxGroupCalls == 2
MaxFetchMonitors == 2
MaxFetchLines == 2
MaxFetchDeps == 2
MaxDirLen == 5
MaxAvail == 8

(***************************************************************************)
(* display.py                                                              *)
(***************************************************************************)
FullRefreshDefault == 5

\* a faulty line 48: the counter restarts at every full refresh
CycleCountAfterReset(c, n) == IF (c + 1) % n = 0 THEN 0 ELSE c + 1

\* Display.update, line 48: self._cycle_count += 1
CycleCountAfter(c, n) == c + 1

\* Display.update, line 49
NeedsFullRefresh(c, n) == (c % n) = 0

\* faulty lines 65-69: no except clause, the AttributeError propagates
FastRefreshNoFallback(fast) ==
    IF fast THEN [calls |-> <<"init_fast">>, raised |-> FALSE]
            ELSE [calls |-> <<>>, raised |-> TRUE]

\* Display.update, lines 65-69: init_fast, or init when the attribute is absent
FastRefresh(fast) ==
    IF fast THEN [calls |-> <<"init_fast">>, raised |-> FALSE]
            ELSE [calls |-> <<"init">>, raised |-> FALSE]

\* Display.update, lines 58-62
FullRefresh == [calls |-> <<"init", "Clear", "init">>, raised |-> FALSE]

\* Display.update, lines 51-71: the driver calls of one update
UpdateCalls(sim, full, fast) ==
    IF sim THEN [calls |-> <<>>, raised |-> FALSE]
    ELSE LET r == IF full THEN FullRefresh ELSE FastRefresh(fast)
         IN  IF r.raised THEN r
             ELSE [calls |-> r.calls \o <<"display">>, raised |-> FALSE]

\* Display.clear, lines 73-80
ClearCalls(sim, loaded) ==
    IF sim \/ ~loaded THEN <<>> ELSE <<"init", "Clear">>

\* Display.sleep, lines 82-89
SleepCalls(sim, loaded) ==
    IF sim \/ ~loaded THEN <<>> ELSE <<"sleep">>

(***************************************************************************)
(* main.py                                                                 *)
(***************************************************************************)
CycleSteps == {"fetch", "group", "render", "update"}

\* a faulty main: display.init() called before the try statement
HandlerInitOutsideTry(step) == IF step = "init" THEN "done" ELSE "except"

\* main, lines 61-83: every step is inside the try, an Exception raised by
\* `step` is caught by the except clause
Handler(step) == "except"

\* an exception raised by `step` unwinds to its handler
Raise(step) ==
    /\ pc' = Handler(step)
    /\ error_in' = step

MainInit ==
    /\ pc = "init"
    /\ running = TRUE
    /\ simulate \in BOOLEAN
    /\ has_init_fast \in BOOLEAN
    /\ full_refresh_every \in 1..FullRefreshDefault
    /\ refresh_interval \in 0..MaxInterval
    /\ cycle_count = 0
    /\ epd = FALSE
    /\ needs_full_refresh = FALSE
    /\ epd_calls = <<>>
    /\ update_calls = 0
    /\ ticks = 0
    /\ error_in = "none"
    /\ cleanup = <<>>
    /\ fetches = 0

\* _shutdown: the signal handler, delivered between any two steps
Shutdown ==
    /\ pc # "done"
    /\ running
    /\ running' = FALSE
    /\ UNCHANGED <<pc, simulate, has_init_fast, full_refresh_every,
                   refresh_interval, cycle_count, epd, needs_full_refresh,
                   epd_calls, update_calls, ticks, error_in, cleanup, fetches>>
    /\ UNCHANGED notMain

\* display.init() returns
DisplayInit ==
    /\ pc = "init"
    /\ pc' = "while"
    /\ epd' = ~simulate
    /\ epd_calls' = IF simulate THEN <<>> ELSE <<"init", "Clear">>
    /\ UNCHANGED <<running, simulate, has_init_fast, full_refresh_every,
                   refresh_interval, cycle_count, needs_full_refresh,
                   update_calls, ticks, error_in, cleanup, fetches>>
    /\ UNCHANGED notMain

\* display.init() raises: mkdir fails (simulate), the driver module is
\* missing (_load_epd re-raises ImportError, _epd stays None), or the loaded
\* driver fails in init / Clear
DisplayInitRaises ==
    /\ pc = "init"
    /\ Raise("init")
    /\ \E loaded \in BOOLEAN :
          /\ simulate => ~loaded
          /\ epd' = loaded
    /\ epd_calls' = <<>>
    /\ UNCHANGED <<running, simulate, has_init_fast, full_refresh_every,
                   refresh_interval, cycle_count, needs_full_refresh,
                   update_calls, ticks, cleanup, fetches>>
    /\ UNCHANGED notMain

\* while _running: (line 64)
WhileTest ==
    /\ pc = "while"
    /\ pc' = IF running THEN "fetch" ELSE "finally"
    /\ running => update_calls < MaxCycles
    /\ UNCHANGED <<running, simulate, has_init_fast, full_refresh_every,
                   refresh_interval, cycle_count, epd, needs_full_refresh,
                   epd_calls, update_calls, ticks, error_in, cleanup, fetches>>
    /\ UNCHANGED notMain

\* fetch_departures / group_by_station / render_departures (lines 67-71):
\* the step returns, or raises an unexpected exception
CycleStep ==
    /\ pc \in {"fetch", "group", "render"}
    /\ fetches' = IF pc = "fetch" THEN fetches + 1 ELSE fetches
    /\ \/ /\ pc' = CASE pc = "fetch" -> "group"
                     [] pc = "group" -> "render"
                     [] pc = "render" -> "update"
          /\ UNCHANGED error_in
       \/ Raise(pc)
    /\ UNCHANGED <<running, simulate, has_init_fast, full_refresh_every,
                   refresh_interval, cycle_count, epd, needs_full_refresh,
                   epd_calls, update_calls, ticks, cleanup>>
    /\ UNCHANGED notMain

\* display.update(image) (line 74): Display.update, lines 46-71
DisplayUpdate ==
    /\ pc = "update"
    /\ update_calls' = update_calls + 1
    /\ cycle_count' = CycleCountAfter(cycle_count, full_refresh_every)
    /\ needs_full_refresh' = NeedsFullRefresh(cycle_count', full_refresh_every)
    /\ LET r == UpdateCalls(simulate, needs_full_refresh', has_init_fast)
       IN  \E fault \in BOOLEAN :
              \* fault: image.save or a driver call fails
              IF fault \/ r.raised
              THEN /\ Raise(IF r.raised THEN "init_fast" ELSE "update")
                   /\ epd_calls' = <<>>
                   /\ UNCHANGED ticks
              ELSE /\ pc' = "sleep"
                   /\ epd_calls' = r.calls
                   /\ ticks' = 0
                   /\ UNCHANGED error_in
    /\ UNCHANGED <<running, simulate, has_init_fast, full_refresh_every,
                   refresh_interval, epd, cleanup, fetches>>
    /\ UNCHANGED notMain

\* for _ in range(refresh_interval): if not _running: break; time.sleep(1)
SleepTick ==
    /\ pc = "sleep"
    /\ IF ticks < refresh_interval /\ running
       THEN /\ ticks' = ticks + 1
            /\ pc' = "sleep"
       ELSE /\ pc' = "while"
            /\ UNCHANGED ticks
    /\ UNCHANGED <<running, simulate, has_init_fast, full_refresh_every,
                   refresh_interval, cycle_count, epd, needs_full_refresh,
                   epd_calls, update_calls, error_in, cleanup, fetches>>
    /\ UNCHANGED notMain

\* except Exception: logger.exception(...) (lines 82-83)
Except ==
    /\ pc = "except"
    /\ pc' = "finally"
    /\ UNCHANGED <<running, simulate, has_init_fast, full_refresh_every,
                   refresh_interval, cycle_count, epd, needs_full_refresh,
                   epd_calls, update_calls, ticks, error_in, cleanup, fetches>>
    /\ UNCHANGED notMain

\* finally: display.clear() (line 86)
FinallyClear ==
    /\ pc = "finally"
    /\ pc' = "cleared"
    /\ cleanup' = Append(cleanup, "clear")
    /\ epd_calls' = ClearCalls(simulate, epd)
    /\ UNCHANGED <<running, simulate, has_init_fast, full_refresh_every,
                   refresh_interval, cycle_count, epd, needs_full_refresh,
                   update_calls, ticks, error_in, fetches>>
    /\ UNCHANGED notMain

\* finally: display.sleep() (line 87), then main returns
FinallySleep ==
    /\ pc = "cleared"
    /\ pc' = "done"
    /\ cleanup' = Append(cleanup, "sleep")
    /\ epd_calls' = SleepCalls(simulate, epd)
    /\ UNCHANGED <<running, simulate, has_init_fast, full_refresh_every,
                   refresh_interval, cycle_count, epd, needs_full_refresh,
                   update_calls, ticks, error_in, fetches>>
    /\ UNCHANGED notMain

Next ==
    \/ Shutdown
    \/ DisplayInit
    \/ DisplayInitRaises
    \/ WhileTest
    \/ CycleStep
    \/ DisplayUpdate
    \/ SleepTick
    \/ Except
    \/ FinallyClear
    \/ FinallySleep

(***************************************************************************)
(* api.py: strings are sequences of code points                            *)
(***************************************************************************)
\* str.upper on one code point
UpperChar(c) == IF c >= 97 /\ c <= 122 THEN c - 32 ELSE c

\* str.upper
Upper(s) == [i \in 1..Len(s) |-> UpperChar(s[i])]

\* str < str: lexicographic by code point, a proper prefix is smaller
RECURSIVE StrLess(_, _)
StrLess(a, b) ==
    IF b = <<>> THEN FALSE
    ELSE IF a = <<>> THEN TRUE
    ELSE IF a[1] # b[1] THEN a[1] < b[1]
    ELSE StrLess(Tail(a), Tail(b))

\* tuple comparison of the sort key (l["name"], l["towards"]), line 105
LineKeyLess(x, y) ==
    \/ StrLess(x.name, y.name)
    \/ x.name = y.name /\ StrLess(x.towards, y.towards)

\* a missing rbl: .get("rbl") is None (line 52)
NoRbl == -1

\* "U4", "u4"
LineNames == {<<85, 52>>, <<117, 52>>}

\* "Heiligenstadt", "Huetteldorf"
Directions ==
    {<<72, 101, 105, 108, 105, 103, 101, 110, 115, 116, 97, 100, 116>>,
     <<72, 117, 101, 116, 116, 101, 108, 100, 111, 114, 102>>}

Dep(c, r) == [countdown |-> c, realtime |-> r]

\* departure lists in the order the API gave them
DepartureLists ==
    {<<Dep(2, FALSE)>>,
     <<Dep(7, TRUE), Dep(2, FALSE)>>,
     <<Dep(2, TRUE), Dep(7, FALSE)>>}

\* config["stations"]
stations_config ==
    <<[name |-> "Karlsplatz", rbls |-> {100, 101}],
      [name |-> "Oper", rbls |-> {200}]>>

\* no rbl, a stop of each configured station, a stop of none
Rbls == {NoRbl, 100, 200, 999}

\* the records fetch_departures appends (lines 68-73)
MonitorRecords ==
    [rbl : Rbls, name : LineNames, towards : Directions,
     departures : DepartureLists]

(***************************************************************************)
(* api.py: group_by_station                                                *)
(***************************************************************************)
\* list.sort(key=countdown), line 100: stable insertion of d into sorted s
RECURSIVE InsertByCountdown(_, _)
InsertByCountdown(s, d) ==
    IF s = <<>> THEN <<d>>
    ELSE IF s[Len(s)].countdown <= d.countdown THEN Append(s, d)
    ELSE Append(InsertByCountdown(SubSeq(s, 1, Len(s) - 1), d), s[Len(s)])

RECURSIVE SortByCountdown(_)
SortByCountdown(s) ==
    IF s = <<>> THEN <<>>
    ELSE InsertByCountdown(SortByCountdown(SubSeq(s, 1, Len(s) - 1)), s[Len(s)])

\* a faulty line 88: the rbl is not compared
MatchesAnyRbl(m, station) == TRUE

\* m.get("rbl") in station_rbls, line 88
Matches(m, station) == m.rbl \in station.rbls

\* lines = [m for m in monitors if ...], line 88: references, in list order
RECURSIVE SelectLines(_, _, _)
SelectLines(heap, station, i) ==
    IF i > Len(heap) THEN <<>>
    ELSE (IF Matches(heap[i], station) THEN <<i>> ELSE <<>>)
         \o SelectLines(heap, station, i + 1)

\* key = (line["name"].upper(), line["towards"].upper()), line 94
Key(line) == <<Upper(line.name), Upper(line.towards)>>

\* lines 93-101: the loop over lines; seen holds references in insertion
\* order, existing["departures"] = merged writes into the monitor itself
RECURSIVE MergeLines(_, _, _)
MergeLines(heap, seen, lines) ==
    IF lines = <<>> THEN [heap |-> heap, seen |-> seen]
    ELSE LET i == lines[1]
             hit == {k \in 1..Len(seen) : Key(heap[seen[k]]) = Key(heap[i])}
         IN  IF hit = {}
             THEN MergeLines(heap, Append(seen, i), Tail(lines))
             ELSE LET j == seen[CHOOSE k \in hit : TRUE]
                      merged == SortByCountdown(heap[j].departures
                                                \o heap[i].departures)
                  IN  MergeLines([heap EXCEPT ![j].departures = merged],
                                 seen, Tail(lines))

\* sorted(seen.values(), key=...), line 105: stable insertion sort
RECURSIVE InsertLine(_, _, _)
InsertLine(heap, s, i) ==
    IF s = <<>> THEN <<i>>
    ELSE IF ~LineKeyLess(heap[i], heap[s[Len(s)]]) THEN Append(s, i)
    ELSE Append(InsertLine(heap, SubSeq(s, 1, Len(s) - 1), i), s[Len(s)])

RECURSIVE SortLines(_, _)
SortLines(heap, s) ==
    IF s = <<>> THEN <<>>
    ELSE InsertLine(heap, SortLines(heap, SubSeq(s, 1, Len(s) - 1)), s[Len(s)])

\* lines 85-108: the loop over stations_config
RECURSIVE GroupStations(_, _, _)
GroupStations(heap, config, acc) ==
    IF config = <<>> THEN [heap |-> heap, result |-> acc]
    ELSE LET station == config[1]
             m == MergeLines(heap, <<>>, SelectLines(heap, station, 1))
             view == [name |-> station.name,
                      lines |-> SortLines(m.heap, m.seen)]
         IN  GroupStations(m.heap, Tail(config), Append(acc, view))

group_by_station(heap, config) == GroupStations(heap, config, <<>>)

\* the value of a returned list: its references read through the monitors
Deref(heap, res) ==
    [s \in 1..Len(res) |->
        [name |-> res[s].name,
         lines |-> [k \in 1..Len(res[s].lines) |->
                       [name |-> heap[res[s].lines[k]].name,
                        towards |-> heap[res[s].lines[k]].towards,
                        departures |-> heap[res[s].lines[k]].departures]]]]

MonitorLists == UNION {[1..n -> MonitorRecords] : n \in 0..MaxMonitors}

GroupInit ==
    /\ monitors \in MonitorLists
    /\ given = monitors
    /\ result = <<>>
    /\ first_result = <<>>
    /\ group_calls = 0

\* grouped = group_by_station(raw, config["stations"])
Group ==
    /\ group_calls < MaxGroupCalls
    /\ LET g == group_by_station(monitors, stations_config)
       IN  /\ monitors' = g.heap
           /\ result' = g.result
           /\ first_result' = IF group_calls = 0
                              THEN Deref(g.heap, g.result)
                              ELSE first_result
    /\ group_calls' = group_calls + 1
    /\ UNCHANGED given
    /\ UNCHANGED notGroup


(***************************************************************************)
(* api.py: fetch_departures                                                *)
(*                                                                         *)
(* The response is read as the code reads it: each entry of an array is    *)
(* drawn when the loop reaches it.  A field of a JSON object is absent,    *)
(* present with null, or present with a value.                             *)
(***************************************************************************)
FieldStates == {"absent", "null", "val"}

\* a field of a JSON object: absent, present with null, or present with v
NoField == [t |-> "absent", v |-> 0]

NoStrField == [t |-> "absent", v |-> <<>>]

Field(t, v) == [t |-> t, v |-> v]

\* Python values: None, or a value
None == [t |-> "none", v |-> 0]

\* dict.get(key): None when the key is absent, else the stored value
Get(f) == IF f.t = "val" THEN f ELSE None

\* dict.get(key, default): the default only when the key is absent
GetDefault(f, default) ==
    IF f.t = "absent" THEN Field("val", default)
    ELSE IF f.t = "null" THEN [t |-> "none", v |-> default]
    ELSE f

\* a != b on Python values
PyNe(a, b) == a.t # b.t \/ (a.t = "val" /\ a.v # b.v)

Whitespace == {9, 10, 11, 12, 13, 32}

\* str.strip()
RECURSIVE LStrip(_)
LStrip(s) ==
    IF s # <<>> /\ s[1] \in Whitespace THEN LStrip(Tail(s)) ELSE s

RECURSIVE RStrip(_)
RStrip(s) ==
    IF s # <<>> /\ s[Len(s)] \in Whitespace
    THEN RStrip(SubSeq(s, 1, Len(s) - 1)) ELSE s

Strip(s) == RStrip(LStrip(s))

IsUpper(c) == c >= 65 /\ c <= 90

IsLower(c) == c >= 97 /\ c <= 122

LowerChar(c) == IF IsUpper(c) THEN c + 32 ELSE c

\* str.title(): a letter after a letter is lowered, any other letter raised
Title(s) ==
    [i \in 1..Len(s) |->
        IF i > 1 /\ (IsUpper(s[i - 1]) \/ IsLower(s[i - 1]))
        THEN LowerChar(s[i]) ELSE UpperChar(s[i])]

\* "?"
Unknown == <<63>>

\* " U4"
RawNames == {<<32, 85, 52>>}

\* "st MARX "
RawTowards == {<<115, 116, 32, 77, 65, 82, 88, 32>>}

RawCountdowns == {0, 7}

\* two distinct timestamps
RawTimes == {1, 2}

ScalarFields(values) ==
    {Field("absent", 0), Field("null", 0)} \cup {Field("val", v) : v \in values}

StrFields(values) ==
    {Field("absent", <<>>), Field("null", <<>>)}
        \cup {Field("val", v) : v \in values}

\* line 52: monitor.get("locationStop", {}).get("properties", {})
\*          .get("attributes", {}).get("rbl")
\* chain: the states of locationStop, properties and attributes
RblOf(chain, rblField) ==
    IF \E i \in 1..3 : chain[i] = "null"
                       /\ \A j \in 1..(i - 1) : chain[j] = "val"
    THEN [raised |-> TRUE, rbl |-> NoRbl]
    ELSE IF \E i \in 1..3 : chain[i] = "absent"
    THEN [raised |-> FALSE, rbl |-> NoRbl]
    ELSE [raised |-> FALSE,
          rbl |-> IF rblField.t = "val" THEN rblField.v ELSE NoRbl]

\* the number of iterations of `for x in d.get(key, [])`: an absent array
\* is the empty default, a null one cannot be iterated
Iterate(arrayState, n) ==
    IF arrayState = "null" THEN [raised |-> TRUE, n |-> 0]
    ELSE IF arrayState = "absent" THEN [raised |-> FALSE, n |-> 0]
    ELSE [raised |-> FALSE, n |-> n]

\* line 55: line_data.get("name", "?").strip()
LineName(f) ==
    LET g == GetDefault(f, Unknown)
    IN  IF g.t = "none" THEN [raised |-> TRUE, v |-> <<>>]
        ELSE [raised |-> FALSE, v |-> Strip(g.v)]

\* line 56: line_data.get("towards", "?").strip().title()
Towards(f) ==
    LET g == GetDefault(f, Unknown)
    IN  IF g.t = "none" THEN [raised |-> TRUE, v |-> <<>>]
        ELSE [raised |-> FALSE, v |-> Title(Strip(g.v))]

\* line 65: dep_time.get("timePlanned") != dep_time.get("timeReal")
Realtime(dt) == PyNe(Get(dt.timePlanned), Get(dt.timeReal))

\* lines 61-66: the entries appended for one departureTime
ParseDeparture(dt) ==
    IF Get(dt.countdown).t # "none"
    THEN <<[countdown |-> dt.countdown.v, realtime |-> Realtime(dt)]>>
    ELSE <<>>

FetchInit ==
    /\ fpc = "request"
    /\ fetched = <<>>
    /\ monitors_left = 0
    /\ lines_left = 0
    /\ deps_left = 0
    /\ lines_read = 0
    /\ deps_read = 0
    /\ rbl = NoRbl
    /\ line_data = [name |-> NoStrField, towards |-> NoStrField]
    /\ line_name = <<>>
    /\ towards = <<>>
    /\ departures = <<>>
    /\ dep_time = [countdown |-> NoField, timePlanned |-> NoField,
                   timeReal |-> NoField]
    /\ emitted = FALSE

\* lines 35-40: the request fails and [] is returned
RequestFails ==
    /\ fpc = "request"
    /\ fpc' = "returned"
    /\ fetched' = <<>>
    /\ UNCHANGED <<monitors_left, lines_left, deps_left, lines_read, deps_read,
                   rbl, line_data, line_name, towards, departures, dep_time,
                   emitted>>
    /\ UNCHANGED notFetch

\* lines 42-51: the body is parsed, message and data.monitors are read
ResponseRead ==
    /\ fpc = "request"
    /\ \E message \in FieldStates, data \in FieldStates,
          array \in FieldStates, n \in 0..MaxFetchMonitors :
          LET it == IF data = "absent" THEN Iterate("absent", 0)
                    ELSE Iterate(array, n)
          IN  IF message = "null" \/ data = "null" \/ it.raised
              THEN /\ fpc' = "raised_response"
                   /\ UNCHANGED monitors_left
              ELSE /\ fpc' = "monitors"
                   /\ monitors_left' = it.n
    /\ UNCHANGED <<fetched, lines_left, deps_left, lines_read, deps_read, rbl,
                   line_data, line_name, towards, departures, dep_time, emitted>>
    /\ UNCHANGED notFetch

\* line 75: return monitors
MonitorsDone ==
    /\ fpc = "monitors"
    /\ monitors_left = 0
    /\ fpc' = "returned"
    /\ UNCHANGED <<fetched, monitors_left, lines_left, deps_left, lines_read,
                   deps_read, rbl, line_data, line_name, towards, departures,
                   dep_time, emitted>>
    /\ UNCHANGED notFetch

\* lines 51-54: the next monitor entry
MonitorNext ==
    /\ fpc = "monitors"
    /\ monitors_left > 0
    /\ monitors_left' = monitors_left - 1
    /\ \E entry \in {"null", "val"},
          chain \in [1..3 -> FieldStates],
          rblField \in ScalarFields({100}),
          array \in FieldStates,
          n \in 0..(MaxFetchLines - lines_read) :
          LET r == RblOf(chain, rblField)
              it == Iterate(array, n)
          IN  IF entry = "null" \/ r.raised \/ it.raised
              THEN /\ fpc' = "raised_monitor"
                   /\ UNCHANGED <<rbl, lines_left>>
              ELSE /\ fpc' = "lines"
                   /\ rbl' = r.rbl
                   /\ lines_left' = it.n
    /\ UNCHANGED <<fetched, deps_left, lines_read, deps_read, line_data,
                   line_name, towards, departures, dep_time, emitted>>
    /\ UNCHANGED notFetch

\* line 54: the lines of this monitor are exhausted
LinesDone ==
    /\ fpc = "lines"
    /\ lines_left = 0
    /\ fpc' = "monitors"
    /\ UNCHANGED <<fetched, monitors_left, lines_left, deps_left, lines_read,
                   deps_read, rbl, line_data, line_name, towards, departures,
                   dep_time, emitted>>
    /\ UNCHANGED notFetch

\* lines 54-59: the next line entry
LineNext ==
    /\ fpc = "lines"
    /\ lines_left > 0
    /\ lines_left' = lines_left - 1
    /\ lines_read' = lines_read + 1
    /\ \E entry \in {"null", "val"},
          name \in StrFields(RawNames),
          tw \in StrFields(RawTowards),
          deps \in FieldStates,
          array \in FieldStates,
          n \in 0..(MaxFetchDeps - deps_read) :
          LET ln == LineName(name)
              t == Towards(tw)
              it == IF deps = "absent" THEN Iterate("absent", 0)
                    ELSE Iterate(array, n)
          IN  /\ line_data' = [name |-> name, towards |-> tw]
              /\ IF entry = "null" \/ ln.raised \/ t.raised
                    \/ deps = "null" \/ it.raised
                 THEN /\ fpc' = "raised_line"
                      /\ UNCHANGED <<line_name, towards, departures, deps_left>>
                 ELSE /\ fpc' = "deps"
                      /\ line_name' = ln.v
                      /\ towards' = t.v
                      /\ departures' = <<>>
                      /\ deps_left' = it.n
    /\ emitted' = FALSE
    /\ UNCHANGED <<fetched, monitors_left, deps_read, rbl, dep_time>>
    /\ UNCHANGED notFetch

\* lines 68-73: monitors.append({...})
DepsDone ==
    /\ fpc = "deps"
    /\ deps_left = 0
    /\ fpc' = "lines"
    /\ fetched' = Append(fetched, [rbl |-> rbl, name |-> line_name,
                                   towards |-> towards,
                                   departures |-> departures])
    \* the loop variables are dead until the next iteration assigns them
    /\ line_data' = [name |-> NoStrField, towards |-> NoStrField]
    /\ dep_time' = [countdown |-> NoField, timePlanned |-> NoField,
                    timeReal |-> NoField]
    /\ emitted' = FALSE
    /\ UNCHANGED <<monitors_left, lines_left, deps_left, lines_read, deps_read,
                   rbl, line_name, towards, departures>>
    /\ UNCHANGED notFetch

\* lines 59-66: the next departure entry
DepNext ==
    /\ fpc = "deps"
    /\ deps_left > 0
    /\ deps_left' = deps_left - 1
    /\ deps_read' = deps_read + 1
    /\ \E entry \in {"null", "val"},
          departureTime \in FieldStates,
          cd \in ScalarFields(RawCountdowns),
          planned \in ScalarFields(RawTimes),
          real \in ScalarFields(RawTimes) :
          LET dt == IF departureTime = "val"
                    THEN [countdown |-> cd, timePlanned |-> planned,
                          timeReal |-> real]
                    ELSE [countdown |-> NoField, timePlanned |-> NoField,
                          timeReal |-> NoField]
          IN  /\ dep_time' = dt
              /\ IF entry = "null" \/ departureTime = "null"
                 THEN /\ fpc' = "raised_departure"
                      /\ UNCHANGED <<departures, emitted>>
                 ELSE /\ fpc' = "deps"
                      /\ departures' = departures \o ParseDeparture(dt)
                      /\ emitted' = (ParseDeparture(dt) # <<>>)
    /\ UNCHANGED <<fetched, monitors_left, lines_left, lines_read, rbl,
                   line_data, line_name, towards>>
    /\ UNCHANGED notFetch

(***************************************************************************)
(* renderer.py: the direction text of _draw_line_row                       *)
(***************************************************************************)
WIDTH == 800
MARGIN_X == 20
COUNTDOWN_COLS == 3
COUNTDOWN_WIDTH == 50

\* "…"
Ellipsis == 8230

\* the advance of one glyph of FONT_DIRECTION: "i" is narrow, "m" is wide
GlyphWidth(c) == IF c = 105 THEN 1 ELSE IF c = 109 THEN 3 ELSE 2

\* draw.textbbox((0, 0), text, font=FONT_DIRECTION): bbox[2] - bbox[0]
RECURSIVE TextWidth(_)
TextWidth(s) ==
    IF s = <<>> THEN 0 ELSE GlyphWidth(s[1]) + TextWidth(Tail(s))

\* lines 115 and 118
MaxDirWidth(width, lineRight) ==
    width - MARGIN_X - (COUNTDOWN_COLS * COUNTDOWN_WIDTH) - (lineRight + 12) - 10

\* lines 123-128: the while loop
RECURSIVE TruncateLoop(_, _)
TruncateLoop(d, maxw) ==
    IF Len(d) > 3
    THEN LET d1 == SubSeq(d, 1, Len(d) - 1)
         IN  IF TextWidth(Append(d1, Ellipsis)) <= maxw
             THEN Append(d1, Ellipsis)
             ELSE TruncateLoop(d1, maxw)
    ELSE d

\* lines 119-128: the text that is drawn for `d`
DirectionText(d, maxw) ==
    IF TextWidth(d) > maxw THEN TruncateLoop(d, maxw) ELSE d

max_dir_width == MaxDirWidth(WIDTH, line_right)

\* direction strings of "i" and "m"
DirectionStrings == UNION {[1..n -> {105, 109}] : n \in 0..MaxDirLen}

\* right edges of the line name that leave 0 .. MaxAvail pixels
LineRights ==
    {x \in 0..WIDTH : MaxDirWidth(WIDTH, x) \in 0..MaxAvail}

RenderInit ==
    /\ rpc = "row"
    /\ direction \in DirectionStrings
    /\ line_right \in LineRights
    /\ drawn = <<>>

\* _draw_line_row, line 130: draw.text(..., direction, ...)
DrawLineRow ==
    /\ rpc = "row"
    /\ rpc' = "drawn"
    /\ drawn' = DirectionText(direction, max_dir_width)
    /\ UNCHANGED <<direction, line_right>>
    /\ UNCHANGED notRender

(***************************************************************************)
(* The four specifications                                                 *)
(***************************************************************************)
MainIdle ==
    /\ pc = "idle"
    /\ running = TRUE
    /\ simulate = FALSE
    /\ has_init_fast = FALSE
    /\ full_refresh_every = FullRefreshDefault
    /\ refresh_interval = 0
    /\ cycle_count = 0
    /\ epd = FALSE
    /\ needs_full_refresh = FALSE
    /\ epd_calls = <<>>
    /\ update_calls = 0
    /\ ticks = 0
    /\ error_in = "none"
    /\ cleanup = <<>>
    /\ fetches = 0

GroupIdle ==
    /\ monitors = <<>>
    /\ given = <<>>
    /\ result = <<>>
    /\ first_result = <<>>
    /\ group_calls = 0

FetchIdle ==
    /\ fpc = "idle"
    /\ fetched = <<>>
    /\ monitors_left = 0
    /\ lines_left = 0
    /\ deps_left = 0
    /\ lines_read = 0
    /\ deps_read = 0
    /\ rbl = NoRbl
    /\ line_data = [name |-> NoStrField, towards |-> NoStrField]
    /\ line_name = <<>>
    /\ towards = <<>>
    /\ departures = <<>>
    /\ dep_time = [countdown |-> NoField, timePlanned |-> NoField,
                   timeReal |-> NoField]
    /\ emitted = FALSE

RenderIdle ==
    /\ rpc = "idle"
    /\ direction = <<>>
    /\ line_right = 0
    /\ drawn = <<>>

Init == MainInit /\ GroupIdle /\ FetchIdle /\ RenderIdle

Spec == Init /\ [][Next]_vars

InitGroup == GroupInit /\ MainIdle /\ FetchIdle /\ RenderIdle

NextGroup == Group

SpecGroup == InitGroup /\ [][NextGroup]_vars

InitFetch == FetchInit /\ MainIdle /\ GroupIdle /\ RenderIdle

NextFetch ==
    \/ RequestFails
    \/ ResponseRead
    \/ MonitorsDone
    \/ MonitorNext
    \/ LinesDone
    \/ LineNext
    \/ DepsDone
    \/ DepNext

SpecFetch == InitFetch /\ [][NextFetch]_vars

InitRender == RenderInit /\ MainIdle /\ GroupIdle /\ FetchIdle

NextRender == DrawLineRow

SpecRender == InitRender /\ [][NextRender]_vars

(***************************************************************************)
(* Properties of main() and Display (checked under Spec)                   *)
(***************************************************************************)

\* C3: an unexpected exception in a step of one cycle, while no termination
\* has been requested, does not stop the process: main never returns with
\* _running still set after a cycle step raised.
C3_CycleErrorDoesNotStopProcess ==
    ~(pc = "done" /\ error_in \in CycleSteps /\ running)

\* C5: the cycle counter grows by exactly one per Display.update call and is
\* never reset, so it equals the number of calls; the k-th call is classified
\* full refresh exactly when k mod full_refresh_every = 0, in simulate mode
\* as in hardware mode.
C5_RefreshClassification ==
    /\ cycle_count = update_calls
    /\ update_calls > 0 =>
          (needs_full_refresh <=> update_calls % full_refresh_every = 0)

\* C5 happens: the 15th call with full_refresh_every = 5, in simulate mode
C5_FifteenthCycleIsFull ==
    /\ simulate
    /\ full_refresh_every = 5
    /\ update_calls = 15
    /\ needs_full_refresh

C10_FallbackIssuesFullRefreshCalls ==
    (pc = "sleep" /\ ~simulate /\ ~has_init_fast /\ ~needs_full_refresh)
        => epd_calls = <<"init", "Clear", "init", "display">>

\* C10 amended: on a fast cycle in hardware mode with no init_fast, the
\* missing attribute raises nothing out of Display.update, the update that
\* completed called init once and then display, and the cycle counter was
\* advanced as on any other cycle.
C10_FallbackReinitialisesOnce ==
    (~simulate /\ ~has_init_fast /\ ~needs_full_refresh /\ update_calls > 0)
        => /\ error_in # "init_fast"
           /\ pc = "sleep" => epd_calls = <<"init", "display">>
           /\ cycle_count = update_calls

\* C10 happens: a fast cycle completed on a driver without init_fast
C10_FastCycleWithoutInitFast ==
    /\ pc = "sleep"
    /\ ~simulate
    /\ ~has_init_fast
    /\ ~needs_full_refresh
    /\ update_calls > 0
    /\ epd_calls = <<"init", "display">>

(***************************************************************************)
(* Properties of group_by_station (checked under SpecGroup)                *)
(***************************************************************************)
\* the value returned by the last call
Returned == Deref(monitors, result)

\* the value group_by_station returns for the list ms
Grouped(ms) ==
    LET g == group_by_station(ms, stations_config)
    IN  Deref(g.heap, g.result)

IsSortedByCountdown(ds) ==
    \A i \in 1..(Len(ds) - 1) : ds[i].countdown <= ds[i + 1].countdown

\* per station, the set of LineDirections (name, direction, departures)
LineSets(res) ==
    [s \in 1..Len(res) |-> {res[s].lines[k] : k \in 1..Len(res[s].lines)}]

Orders(n) ==
    {f \in [1..n -> 1..n] : \A i, j \in 1..n : f[i] = f[j] => i = j}

\* the monitor list after the first k records were grouped: the lines of
\* that result, followed by the records not yet merged
MergedThen(ms, k) ==
    LET g == group_by_station(SubSeq(ms, 1, k), stations_config)
        RECURSIVE Flat(_)
        Flat(s) ==
            IF s > Len(g.result) THEN <<>>
            ELSE [i \in 1..Len(g.result[s].lines) |->
                     g.heap[g.result[s].lines[i]]] \o Flat(s + 1)
    IN  Flat(1) \o SubSeq(ms, k + 1, Len(ms))

\* C1: in every StationView returned, the departures of every line are in
\* non-decreasing order of countdown, for every monitor list.
C1_DeparturesSortedInEveryLine ==
    group_calls > 0 =>
        \A s \in 1..Len(Returned) : \A k \in 1..Len(Returned[s].lines) :
            IsSortedByCountdown(Returned[s].lines[k].departures)

\* C4: merging is commutative and idempotent: every order of the given
\* records yields the same LineDirection sets, merging a prefix first and the
\* rest afterwards yields them too, and grouping the same monitor list again
\* returns what the first call returned.
C4_MergeCommutativeIdempotent ==
    group_calls > 0 =>
        /\ \A f \in Orders(Len(given)) :
              LineSets(Grouped([i \in 1..Len(given) |-> given[f[i]]]))
                  = LineSets(first_result)
        /\ \A k \in 0..Len(given) :
              LineSets(Grouped(MergedThen(given, k))) = LineSets(first_result)
        /\ Returned = first_result

\* C8: group_by_station returns exactly one StationView per configured
\* station, in configuration order and with the configured name; a station
\* that no monitor matches has no lines; a monitor whose rbl is null or is
\* in no configured station is in no StationView.
C8_OneViewPerStation ==
    group_calls > 0 =>
        /\ Len(result) = Len(stations_config)
        /\ \A s \in 1..Len(result) :
              /\ result[s].name = stations_config[s].name
              /\ (\A i \in 1..Len(monitors) :
                     monitors[i].rbl \notin stations_config[s].rbls)
                    => result[s].lines = <<>>
              /\ \A k \in 1..Len(result[s].lines) :
                     monitors[result[s].lines[k]].rbl
                         \in stations_config[s].rbls

\* C8 happens: a monitor without rbl and one of an unconfigured stop were
\* given, and both stations came back, in order, without lines
C8_UnattributableMonitorsDropped ==
    /\ group_calls > 0
    /\ Len(monitors) = 2
    /\ monitors[1].rbl = NoRbl
    /\ monitors[2].rbl = 999
    /\ Len(result) = 2
    /\ result[1].lines = <<>>
    /\ result[2].lines = <<>>

(***************************************************************************)
(* Properties of fetch_departures (checked under SpecFetch)                *)
(***************************************************************************)

\* C2: the realtime flag of every emitted departure is true exactly when
\* timePlanned and timeReal are both present and unequal.
C2_RealtimeIffBothPresentAndUnequal ==
    emitted =>
        (departures[Len(departures)].realtime
            <=> /\ dep_time.timePlanned.t = "val"
                /\ dep_time.timeReal.t = "val"
                /\ dep_time.timePlanned.v # dep_time.timeReal.v)

\* C9: a missing field (absent, or present with null) never raises out of
\* fetch_departures, and a missing line name or direction becomes the empty
\* string.
C9_MalformedEntryNeverFailsBatch ==
    /\ fpc \notin {"raised_monitor", "raised_line", "raised_departure"}
    /\ fpc = "deps" =>
          /\ line_data.name.t # "val" => line_name = <<>>
          /\ line_data.towards.t # "val" => towards = <<>>

(***************************************************************************)
(* Properties of _draw_line_row (checked under SpecRender)                 *)
(***************************************************************************)

\* C7: a direction wider than max_dir_width is drawn as a stem of at least
\* 3 characters, strictly shorter than the original string, followed by an
\* ellipsis.
C7_TruncatedTextEndsInEllipsis ==
    (rpc = "drawn" /\ TextWidth(direction) > max_dir_width) =>
        /\ drawn # <<>>
        /\ drawn[Len(drawn)] = Ellipsis
        /\ Len(drawn) - 1 >= 3
        /\ Len(drawn) - 1 < Len(direction)
        /\ SubSeq(drawn, 1, Len(drawn) - 1)
               = SubSeq(direction, 1, Len(drawn) - 1)

====
